---- MODULE Spec2Model ----
(***************************************************************************)
(* Model of src/main.py of uom_proxy: an XYZ tile endpoint that resolves   *)
(* the province group of a tile, builds a WMS request for the group's      *)
(* layers and proxies the upstream image.                                  *)
(*                                                                         *)
(* Units.  Web-Mercator coordinates are kept as integers in units of       *)
(* 2*pi*earth_radius / WORLD metres, so that origin_shift = WORLD / 2 and  *)
(* res = WORLD / (tile_size * 2^z) are exact for z <= 7.  A longitude is   *)
(* kept as the integer lng * WORLD (degrees times WORLD); a latitude is    *)
(* kept as its Mercator ordinate, which mercator_to_lnglat maps strictly   *)
(* increasingly to degrees, and is compared with a latitude in degrees     *)
(* through the table MercY.                                                *)
(***************************************************************************)
EXTENDS Integers, Sequences, FiniteSets, TLC

\* Largest number of features in the GeoJSON file read at startup.
MaxFeatures == 2
\* Largest number of features in the file of the concurrent specification.
MaxConcFeatures == 2

VARIABLES
    PROVINCE_GROUPS,      \* ordered dict: group name -> list of codes
    CODE_TO_GROUP,        \* dict: code -> group name
    province_geometries,  \* ordered dict: code -> geometry (the Region Index)
    geojson,              \* content of ./res/china_new.geojson
    phase,                \* "startup" before load_province_geometries, then "serving"
    tiles,                \* the tiles the clients ask for
    req                   \* per in-flight request: position and locals

vars == <<PROVINCE_GROUPS, CODE_TO_GROUP, province_geometries, geojson, phase, tiles, req>>

-----------------------------------------------------------------------------
(* Sequences and ordered dicts *)

Range(s) == {s[i] : i \in 1..Len(s)}

Min(S) == CHOOSE m \in S : \A n \in S : m <= n

RECURSIVE Flatten(_)
\* sum(lists, []): concatenation of a sequence of lists
Flatten(ss) == IF ss = <<>> THEN <<>> ELSE Head(ss) \o Flatten(Tail(ss))

\* the orders in which a Python set of n elements may be iterated
Orderings(S) == {o \in [1..Cardinality(S) -> S] : \A i, j \in 1..Cardinality(S) : o[i] = o[j] => i = j}

-----------------------------------------------------------------------------
(* Static configuration *)

GroupTable ==
    << [name |-> "north",     codes |-> <<"12", "13", "14", "15">>],
       [name |-> "northeast", codes |-> <<"21", "22", "23">>],
       [name |-> "east",      codes |-> <<"31", "32", "33", "34", "35", "36", "37">>],
       [name |-> "central",   codes |-> <<"41", "42", "43", "44", "45", "46">>],
       [name |-> "southwest", codes |-> <<"50", "51", "52", "53", "54">>],
       [name |-> "northwest", codes |-> <<"62", "63", "64", "65">>] >>

\* {code: group for group, codes in PROVINCE_GROUPS.items() for code in codes}
CodeToGroupOf(groups) ==
    LET codes == UNION {Range(groups[i].codes) : i \in 1..Len(groups)}
    IN  [c \in codes |->
            LET last == CHOOSE i \in 1..Len(groups) :
                            /\ c \in Range(groups[i].codes)
                            /\ \A j \in 1..Len(groups) : c \in Range(groups[j].codes) => j <= i
            IN  groups[last].name]

\* PROVINCE_GROUPS[name] for a name that is a key
GroupCodes(groups, name) ==
    groups[CHOOSE i \in 1..Len(groups) : groups[i].name = name].codes

\* PROVINCE_GROUPS.get(name, [])
GroupCodesOrEmpty(groups, name) ==
    IF \E i \in 1..Len(groups) : groups[i].name = name
    THEN GroupCodes(groups, name) ELSE <<>>

\* CODE_TO_GROUP.get(code, 'unknown')
GroupOfCode(c2g, code) == IF code \in DOMAIN c2g THEN c2g[code] ELSE "unknown"

\* seeded fault: only the first group's list instead of the sum of all
AllCodesFirstGroup(groups) == groups[1].codes

\* sum(PROVINCE_GROUPS.values(), [])
AllCodes(groups) == Flatten([i \in 1..Len(groups) |-> groups[i].codes])

-----------------------------------------------------------------------------
(* Projection *)

TILE_SIZE == 256
\* 2 * origin_shift, the Mercator circumference, in model units
WORLD == 32768
\* 256 * 2^z no longer converts to a float from this zoom on (OverflowError)
FLOAT_OVERFLOW_ZOOM == 1016

RECURSIVE Pow2(_)
Pow2(n) == IF n = 0 THEN 1 ELSE 2 * Pow2(n - 1)

bbox_raises(z) == z >= FLOAT_OVERFLOW_ZOOM

calculate_bbox(z, x, y) ==
    LET origin_shift == WORLD \div 2
        res == WORLD \div (TILE_SIZE * Pow2(z))
    IN  [minx |-> x * TILE_SIZE * res - origin_shift,
         miny |-> origin_shift - (y + 1) * TILE_SIZE * res,
         maxx |-> (x + 1) * TILE_SIZE * res - origin_shift,
         maxy |-> origin_shift - y * TILE_SIZE * res]

\* lng = (x / earth_radius) * 180 / pi = x * 360 / WORLD, kept as lng * WORLD;
\* lat = increasing function of y, kept as y
mercator_to_lnglat(x, y) == [lng |-> x * 360, lat |-> y]

\* floor of the Mercator ordinate of a latitude in degrees:
\* WORLD * ln(tan(pi/4 + lat/2)) / (2 pi); none of these is an integer
MercY(lat) ==
    CASE lat = 30 -> 2864
      [] lat = 31 -> 2970
      [] lat = 33 -> 3185
      [] lat = 35 -> 3404
      [] lat = 37 -> 3629
      [] lat = 38 -> 3744
      [] lat = 40 -> 3978
      [] lat = 46 -> 4726

LngLT(p, deg) == p.lng < deg * WORLD
LngGT(p, deg) == p.lng > deg * WORLD
LatGT(p, deg) == p.lat > MercY(deg)
LatLT(p, deg) == p.lat <= MercY(deg)

-----------------------------------------------------------------------------
(* Geometry: rings are axis-parallel rectangles in degrees (west, south,   *)
(* east, north); a ring that shapely rejects has ok = FALSE.               *)

Ring(w, s, e, n) == [ok |-> TRUE, w |-> w, s |-> s, e |-> e, n |-> n]
BadRing == [ok |-> FALSE, w |-> 0, s |-> 30, e |-> 0, n |-> 30]

InRingInterior(ring, p) ==
    /\ LngGT(p, ring.w) /\ LngLT(p, ring.e)
    /\ LatGT(p, ring.s) /\ LatLT(p, ring.n)

InRingClosed(ring, p) ==
    /\ ~LngLT(p, ring.w) /\ ~LngGT(p, ring.e)
    /\ LatGT(p, ring.s) /\ LatLT(p, ring.n)

\* shapely Polygon(exterior, interiors): raises on a ring it cannot build
polygon_raises(polygon_coords) ==
    \/ Len(polygon_coords) = 0                                  \* coordinates[0]: IndexError
    \/ \E i \in 1..Len(polygon_coords) : ~polygon_coords[i].ok  \* ValueError
Polygon(polygon_coords) ==
    [exterior |-> Head(polygon_coords), interiors |-> Tail(polygon_coords)]

\* geometry.contains(point): the point is in the interior of the geometry
PolygonContains(poly, p) ==
    /\ InRingInterior(poly.exterior, p)
    /\ \A i \in 1..Len(poly.interiors) : ~InRingClosed(poly.interiors[i], p)

contains(geometry, p) ==
    \E i \in 1..Len(geometry.polys) : PolygonContains(geometry.polys[i], p)

-----------------------------------------------------------------------------
(* The features a GeoJSON file is made of.  A file is a sequence of        *)
(* feature numbers; Feature gives the content of each.                     *)

FeatureIds == 1..9

Props(raw) == [null |-> FALSE, code |-> raw]
NullProps == [null |-> TRUE, code |-> ""]
Geom(type, coordinates) == [null |-> FALSE, type |-> type, coordinates |-> coordinates]
NullGeom == [null |-> TRUE, type |-> "", coordinates |-> <<>>]

Feature(id) ==
    CASE id = 1 -> [properties |-> Props("120000"),
                    geometry |-> Geom("Polygon", <<Ring(110, 30, 120, 38)>>)]
      [] id = 2 -> [properties |-> Props("110000"),
                    geometry |-> Geom("Polygon", <<Ring(114, 33, 120, 40)>>)]
      [] id = 3 -> [properties |-> Props("210000"),
                    geometry |-> Geom("MultiPolygon",
                                      << <<Ring(112, 40, 119, 46)>>,
                                         <<Ring(100, 30, 112, 38), Ring(105, 33, 111, 37)>> >>)]
      [] id = 4 -> [properties |-> Props("620000"),
                    geometry |-> Geom("Polygon", <<Ring(113, 31, 114, 33)>>)]
      [] id = 5 -> [properties |-> Props("130000"),
                    geometry |-> Geom("Point", <<>>)]
      [] id = 6 -> [properties |-> Props("120000"),
                    geometry |-> Geom("Polygon", <<>>)]
      [] id = 7 -> [properties |-> Props("310000"), geometry |-> NullGeom]
      [] id = 8 -> [properties |-> NullProps,
                    geometry |-> Geom("Polygon", <<Ring(110, 30, 120, 38)>>)]
      [] id = 9 -> [properties |-> Props(""),
                    geometry |-> Geom("MultiPolygon", << <<BadRing>> >>)]

\* the sequences over S of length at most n
SeqsUpTo(S, n) == UNION {[1..k -> S] : k \in 0..n}

-----------------------------------------------------------------------------
(* load_province_geometries *)

\* str(properties.get(code_key, ''))[:2]
CodeOf(properties) ==
    SubSeq(properties.code, 1, IF Len(properties.code) < 2 THEN Len(properties.code) ELSE 2)

HasKey(d, k) == \E i \in 1..Len(d) : d[i].code = k
\* d[k] = v on an insertion-ordered dict
DictSet(d, k, v) ==
    IF HasKey(d, k)
    THEN [i \in 1..Len(d) |-> IF d[i].code = k THEN [code |-> k, geometry |-> v] ELSE d[i]]
    ELSE Append(d, [code |-> k, geometry |-> v])
DictGet(d, k) == d[CHOOSE i \in 1..Len(d) : d[i].code = k].geometry

\* the inner try of one feature: the index after it
StoreGeometry(index, code, geometry) ==
    CASE geometry.type = "Polygon" ->
            IF polygon_raises(geometry.coordinates) THEN index
            ELSE DictSet(index, code,
                         [kind |-> "Polygon", polys |-> <<Polygon(geometry.coordinates)>>])
      [] geometry.type = "MultiPolygon" ->
            IF \E i \in 1..Len(geometry.coordinates) : polygon_raises(geometry.coordinates[i])
            THEN index
            ELSE DictSet(index, code,
                         [kind |-> "MultiPolygon",
                          polys |-> [i \in 1..Len(geometry.coordinates) |->
                                        Polygon(geometry.coordinates[i])]])
      [] OTHER -> index

\* a statement of the loop body outside the inner try raises (None.get)
feature_raises(f) ==
    \/ f.properties.null
    \/ CodeOf(f.properties) # "" /\ f.geometry.null

RECURSIVE LoadFeatures(_, _)
\* the loop over data['features']: whether it raised, and the index built
LoadFeatures(features, index) ==
    IF features = <<>> THEN [raised |-> FALSE, index |-> index]
    ELSE LET f == Feature(Head(features))
         IN  IF feature_raises(f) THEN [raised |-> TRUE, index |-> index]
             ELSE IF CodeOf(f.properties) = "" THEN LoadFeatures(Tail(features), index)
             ELSE LoadFeatures(Tail(features),
                               StoreGeometry(index, CodeOf(f.properties), f.geometry))

load_province_geometries(file, index) ==
    IF ~file.readable THEN <<>>
    ELSE LET r == LoadFeatures(file.features, index)
         IN  IF r.raised THEN <<>> ELSE r.index

-----------------------------------------------------------------------------
(* get_province_group *)

LOW_ZOOM == 6
STEP == 10

\* the nine coarse sample points: centre, corners, edge midpoints
points(b) ==
    LET center_x == (b.minx + b.maxx) \div 2
        center_y == (b.miny + b.maxy) \div 2
    IN  << mercator_to_lnglat(center_x, center_y),
           mercator_to_lnglat(b.minx, b.miny),
           mercator_to_lnglat(b.maxx, b.miny),
           mercator_to_lnglat(b.minx, b.maxy),
           mercator_to_lnglat(b.maxx, b.maxy),
           mercator_to_lnglat((b.minx + b.maxx) \div 2, b.miny),
           mercator_to_lnglat((b.minx + b.maxx) \div 2, b.maxy),
           mercator_to_lnglat(b.minx, (b.miny + b.maxy) \div 2),
           mercator_to_lnglat(b.maxx, (b.miny + b.maxy) \div 2) >>

\* the number of values of range(0, 256, step)
RangeLen == (255 \div STEP) + 1
\* the length of edge_points: for each i, the two points j = 0, 255 and one
\* point per j in range(0, 256, step)
EdgeCount == RangeLen * (2 + RangeLen)

\* the k-th dense sample point, in the order the nested loops append them: for
\* each i in range(0, 256, step) the points (i, 0), (i, 255) on the south and
\* north edges and then one point per j on the west (i = 0) or east edge
edge_point(b, k) ==
    LET i == ((k - 1) \div (2 + RangeLen)) * STEP
        n == ((k - 1) % (2 + RangeLen)) + 1
    IN  IF n <= 2
        THEN mercator_to_lnglat(b.minx + ((b.maxx - b.minx) * i) \div 256,
                                b.miny + ((b.maxy - b.miny) * (IF n = 1 THEN 0 ELSE 255)) \div 256)
        ELSE mercator_to_lnglat(IF i = 0 THEN b.minx ELSE b.maxx,
                                b.miny + ((b.maxy - b.miny) * ((n - 3) * STEP)) \div 256)

RECURSIVE FirstContaining(_, _, _)
\* the first entry of the index, from position i on, whose geometry contains p (0: none)
FirstContaining(index, p, i) ==
    IF i > Len(index) THEN 0
    ELSE IF contains(index[i].geometry, p) THEN i
    ELSE FirstContaining(index, p, i + 1)

\* seeded fault: the inner loop without its break
MatchPointNoBreak(index, p) ==
    {index[i].code : i \in {j \in 1..Len(index) : contains(index[j].geometry, p)}}

\* the inner loop over province_geometries.items() with its break: the codes
\* one point adds to matched_provinces
MatchPoint(index, p) ==
    LET hit == FirstContaining(index, p, 1)
    IN  IF hit = 0 THEN {} ELSE {index[hit].code}

\* lines 167-173: every coarse point is examined
CoarseMatches(index, b) ==
    LET pts == points(b)
    IN  UNION {MatchPoint(index, pts[k]) : k \in 1..Len(pts)}

\* lines 178-200: the dense points are examined up to the first one that matches
DenseMatches(index, b) ==
    LET hits == {k \in 1..EdgeCount : MatchPoint(index, edge_point(b, k)) # {}}
    IN  IF hits = {} THEN {} ELSE MatchPoint(index, edge_point(b, Min(hits)))

\* seeded fault: the dense sampling is entered whatever the coarse one found
AfterCoarseAlwaysDense(matched) == "dense"

\* line 176: where the resolution goes after the coarse sampling
AfterCoarse(matched) == IF matched = {} THEN "dense" ELSE "expand"
\* line 203: where it goes after the dense sampling
AfterDense(matched) == IF matched = {} THEN "heuristic" ELSE "expand"

\* seeded fault: the north-west bucket tests lat > 40 instead of lat > 38
heuristic_group_lat40(groups, p) ==
    IF LatGT(p, 40) /\ LngLT(p, 125) THEN GroupCodes(groups, "northeast")
    ELSE IF LngLT(p, 105)
         THEN IF LatGT(p, 40) THEN GroupCodes(groups, "northwest")
              ELSE GroupCodes(groups, "southwest")
    ELSE IF LngLT(p, 115) THEN GroupCodes(groups, "central")
    ELSE IF LngLT(p, 122) THEN GroupCodes(groups, "east")
    ELSE GroupCodes(groups, "north")

\* lines 205-213: the group of the tile centre's longitude/latitude bucket
heuristic_group(groups, p) ==
    IF LatGT(p, 40) /\ LngLT(p, 125) THEN GroupCodes(groups, "northeast")
    ELSE IF LngLT(p, 105)
         THEN IF LatGT(p, 38) THEN GroupCodes(groups, "northwest")
              ELSE GroupCodes(groups, "southwest")
    ELSE IF LngLT(p, 115) THEN GroupCodes(groups, "central")
    ELSE IF LngLT(p, 122) THEN GroupCodes(groups, "east")
    ELSE GroupCodes(groups, "north")

\* line 216: the set of groups of the matched codes
MatchedGroups(c2g, matched) == {GroupOfCode(c2g, code) : code \in matched}

\* seeded fault: each group's list loses its last code
ExpandGroupsDropLast(groups, order) ==
    Flatten([i \in 1..Len(order) |->
                LET codes == GroupCodesOrEmpty(groups, order[i])
                IN  IF codes = <<>> THEN <<>> ELSE SubSeq(codes, 1, Len(codes) - 1)])

\* line 218: the groups' code lists, concatenated in the set's iteration order
ExpandGroups(groups, order) ==
    Flatten([i \in 1..Len(order) |-> GroupCodesOrEmpty(groups, order[i])])

-----------------------------------------------------------------------------
(* wms_to_xyz and get_tile *)

RECURSIVE Join(_, _)
\* sep.join(items)
Join(items, sep) ==
    IF items = <<>> THEN ""
    ELSE IF Len(items) = 1 THEN items[1]
    ELSE items[1] \o sep \o Join(Tail(items), sep)

LayerName(code) == "QGSFKYFW:sf" \o code \o "0000"
STYLE == "QGSFKYFW:shifeikongyu"

\* seeded fault: the style is not repeated per layer
build_styles_once(provinces) == STYLE

build_layers(provinces) == Join([i \in 1..Len(provinces) |-> LayerName(provinces[i])], ",")
build_styles(provinces) == Join([i \in 1..Len(provinces) |-> STYLE], ",")

build_params(provinces, z, x, y) ==
    [service |-> "WMS", version |-> "1.1.0", request |-> "GetMap",
     layers |-> build_layers(provinces),
     styles |-> build_styles(provinces),
     bbox |-> calculate_bbox(z, x, y),
     width |-> 256, height |-> 256, srs |-> "EPSG:3857",
     format |-> "image/png8", transparent |-> "true"]

\* what requests.get(wms_url, params=params, timeout=10) can do
UpstreamReplies ==
    { [raises |-> FALSE, status |-> 200, content |-> "upstream png"],
      [raises |-> FALSE, status |-> 500, content |-> "upstream error page"],
      [raises |-> TRUE,  status |-> 0,   content |-> "Timeout"],
      [raises |-> TRUE,  status |-> 0,   content |-> "ConnectionError"] }

TRANSPARENT_PNG == "1x1 transparent png"

\* the except branch of get_tile
error_response == [body |-> TRANSPARENT_PNG, status |-> 200, content_type |-> "image/png"]

\* get_tile's answer to what the upstream fetch did
tile_response(reply) ==
    IF reply.raises THEN error_response
    ELSE [body |-> reply.content, status |-> 200, content_type |-> "image/png"]

-----------------------------------------------------------------------------
(* State machine *)

Tiles ==
    { <<5, 26, 12>>,
      <<6, 52, 25>>, <<6, 52, 23>>, <<6, 50, 24>>, <<6, 50, 25>>, <<6, 51, 25>>, <<6, 54, 25>>,
      <<7, 104, 50>>,
      <<1016, 0, 0>> }

\* the tiles of the concurrent specification: low zoom, sampled, overflowing
ConcTiles == { <<5, 26, 12>>, <<6, 52, 25>>, <<1016, 0, 0>> }

Files(ids, n) ==
    {[readable |-> TRUE, features |-> fs] : fs \in SeqsUpTo(ids, n)}
        \cup {[readable |-> FALSE, features |-> <<>>]}

NoParams == [service |-> "", version |-> "", request |-> "", layers |-> "", styles |-> "",
             bbox |-> [minx |-> 0, miny |-> 0, maxx |-> 0, maxy |-> 0],
             width |-> 0, height |-> 0, srs |-> "", format |-> "", transparent |-> ""]
NoReply == [raises |-> FALSE, status |-> 0, content |-> ""]
NoResponse == [body |-> "", status |-> 0, content_type |-> ""]

Idle == [pc |-> "idle", tile |-> <<0, 0, 0>>, matched |-> {}, stages |-> <<>>,
         resolved |-> FALSE, provinces |-> <<>>, params |-> NoParams,
         reply |-> NoReply, response |-> NoResponse]

InitWith(files, asked, clients) ==
    /\ PROVINCE_GROUPS = GroupTable
    /\ CODE_TO_GROUP = CodeToGroupOf(GroupTable)
    /\ province_geometries = <<>>
    /\ geojson \in files
    /\ phase = "startup"
    /\ tiles = asked
    /\ req = [r \in clients |-> Idle]

\* one request at a time, any file of at most MaxFeatures features
Init == InitWith(Files(FeatureIds, MaxFeatures), Tiles, {1})
\* two concurrent requests, files of overlapping and dense-only geometries
InitConc == InitWith(Files({1, 2, 4}, MaxConcFeatures), ConcTiles, {1, 2})

\* __main__: load_province_geometries() runs to its end before app.run
Load ==
    /\ phase = "startup"
    /\ province_geometries' = load_province_geometries(geojson, province_geometries)
    /\ phase' = "serving"
    /\ UNCHANGED <<PROVINCE_GROUPS, CODE_TO_GROUP, geojson, tiles, req>>

\* the route hands a tile to get_tile
Receive ==
    \E r \in DOMAIN req :
        /\ phase = "serving"
        /\ req[r].pc \in {"idle", "done"}
        /\ \E t \in tiles : req' = [req EXCEPT ![r] = [Idle EXCEPT !.pc = "resolve", !.tile = t]]
        /\ UNCHANGED <<PROVINCE_GROUPS, CODE_TO_GROUP, province_geometries, geojson, phase, tiles>>

\* lines 141-142
LowZoom ==
    \E r \in DOMAIN req :
        /\ req[r].pc = "resolve"
        /\ req[r].tile[1] < LOW_ZOOM
        /\ req' = [req EXCEPT ![r].pc = "build", ![r].resolved = TRUE,
                              ![r].provinces = AllCodes(PROVINCE_GROUPS)]
        /\ UNCHANGED <<PROVINCE_GROUPS, CODE_TO_GROUP, province_geometries, geojson, phase, tiles>>

\* line 145 raises; get_tile's except answers
ResolveRaises ==
    \E r \in DOMAIN req :
        /\ req[r].pc = "resolve"
        /\ req[r].tile[1] >= LOW_ZOOM
        /\ bbox_raises(req[r].tile[1])
        /\ req' = [req EXCEPT ![r].pc = "done", ![r].response = error_response]
        /\ UNCHANGED <<PROVINCE_GROUPS, CODE_TO_GROUP, province_geometries, geojson, phase, tiles>>

\* seeded fault: a matched geometry is popped from the Region Index
CoarseSamplingEvicting ==
    \E r \in DOMAIN req :
        /\ req[r].pc = "resolve"
        /\ req[r].tile[1] >= LOW_ZOOM
        /\ ~bbox_raises(req[r].tile[1])
        /\ \E matched \in {CoarseMatches(province_geometries,
                                         calculate_bbox(req[r].tile[1], req[r].tile[2], req[r].tile[3]))} :
               /\ req' = [req EXCEPT ![r].pc = AfterCoarse(matched), ![r].matched = matched,
                                     ![r].stages = Append(@, [name |-> "coarse", found |-> matched])]
               /\ province_geometries' =
                      SelectSeq(province_geometries, LAMBDA e : e.code \notin matched)
        /\ UNCHANGED <<PROVINCE_GROUPS, CODE_TO_GROUP, geojson, phase, tiles>>

\* lines 145-173
CoarseSampling ==
    \E r \in DOMAIN req :
        /\ req[r].pc = "resolve"
        /\ req[r].tile[1] >= LOW_ZOOM
        /\ ~bbox_raises(req[r].tile[1])
        /\ \E matched \in {CoarseMatches(province_geometries,
                                         calculate_bbox(req[r].tile[1], req[r].tile[2], req[r].tile[3]))} :
               req' = [req EXCEPT ![r].pc = AfterCoarse(matched), ![r].matched = matched,
                                  ![r].stages = Append(@, [name |-> "coarse", found |-> matched])]
        /\ UNCHANGED <<PROVINCE_GROUPS, CODE_TO_GROUP, province_geometries, geojson, phase, tiles>>

\* lines 176-200
DenseSampling ==
    \E r \in DOMAIN req :
        /\ req[r].pc = "dense"
        /\ \E matched \in {DenseMatches(province_geometries,
                                        calculate_bbox(req[r].tile[1], req[r].tile[2], req[r].tile[3]))} :
               req' = [req EXCEPT ![r].pc = AfterDense(matched), ![r].matched = matched,
                                  ![r].stages = Append(@, [name |-> "dense", found |-> matched])]
        /\ UNCHANGED <<PROVINCE_GROUPS, CODE_TO_GROUP, province_geometries, geojson, phase, tiles>>

\* lines 203-213
HeuristicFallback ==
    \E r \in DOMAIN req :
        /\ req[r].pc = "heuristic"
        /\ LET t == req[r].tile
               center == points(calculate_bbox(t[1], t[2], t[3]))[1]
           IN  req' = [req EXCEPT ![r].pc = "build", ![r].resolved = TRUE,
                                  ![r].provinces = heuristic_group(PROVINCE_GROUPS, center),
                                  ![r].stages = Append(@, [name |-> "heuristic", found |-> {}])]
        /\ UNCHANGED <<PROVINCE_GROUPS, CODE_TO_GROUP, province_geometries, geojson, phase, tiles>>

\* lines 216-221
GroupExpansion ==
    \E r \in DOMAIN req :
        /\ req[r].pc = "expand"
        /\ \E order \in Orderings(MatchedGroups(CODE_TO_GROUP, req[r].matched)) :
              req' = [req EXCEPT ![r].pc = "build", ![r].resolved = TRUE,
                                 ![r].provinces = ExpandGroups(PROVINCE_GROUPS, order)]
        /\ UNCHANGED <<PROVINCE_GROUPS, CODE_TO_GROUP, province_geometries, geojson, phase, tiles>>

\* lines 226-241
BuildRequest ==
    \E r \in DOMAIN req :
        /\ req[r].pc = "build"
        /\ LET t == req[r].tile
           IN  req' = [req EXCEPT ![r].pc = "fetch",
                                  ![r].params = build_params(req[r].provinces, t[1], t[2], t[3])]
        /\ UNCHANGED <<PROVINCE_GROUPS, CODE_TO_GROUP, province_geometries, geojson, phase, tiles>>

\* lines 243-250 and 255-263
UpstreamFetch ==
    \E r \in DOMAIN req :
        /\ req[r].pc = "fetch"
        /\ \E reply \in UpstreamReplies :
              req' = [req EXCEPT ![r].pc = "done", ![r].reply = reply,
                                 ![r].response = tile_response(reply)]
        /\ UNCHANGED <<PROVINCE_GROUPS, CODE_TO_GROUP, province_geometries, geojson, phase, tiles>>

Next ==
    \/ Load
    \/ Receive
    \/ LowZoom
    \/ ResolveRaises
    \/ CoarseSampling
    \/ DenseSampling
    \/ HeuristicFallback
    \/ GroupExpansion
    \/ BuildRequest
    \/ UpstreamFetch

Spec == Init /\ [][Next]_vars
SpecConc == InitConc /\ [][Next]_vars

-----------------------------------------------------------------------------
(* Vocabulary of the properties *)

Clients == DOMAIN req
Zoom(r) == req[r].tile[1]
BBoxOf(r) == calculate_bbox(req[r].tile[1], req[r].tile[2], req[r].tile[3])
\* get_province_group has returned req[r].provinces
Resolved(r) == req[r].resolved
Sampled(r) == Resolved(r) /\ Zoom(r) >= 6
\* get_province_group has just returned
Returned(r) == Resolved(r) /\ req[r].pc = "build"
Codes(r) == Range(req[r].provinces)
GroupSets == {Range(PROVINCE_GROUPS[i].codes) : i \in 1..Len(PROVINCE_GROUPS)}
Containing(p) == {i \in 1..Len(province_geometries) : contains(province_geometries[i].geometry, p)}
IsFirstContaining(i, p) == i \in Containing(p) /\ \A j \in Containing(p) : i <= j
NoCoarseHit(b) == \A k \in 1..9 : Containing(points(b)[k]) = {}
NoDenseHit(b) == \A k \in 1..EdgeCount : Containing(edge_point(b, k)) = {}

\* the entries of a comma-joined list: none for the empty string
CommaAt(s) == {i \in 1..Len(s) : SubSeq(s, i, i) = ","}
\* the end of the n-th entry of a string of length len with its commas at C
EntryEnd(C, len, n) ==
    IF n = 0 THEN 0
    ELSE IF n > Cardinality(C) THEN len + 1
    ELSE CHOOSE c \in C : Cardinality({d \in C : d < c}) = n - 1
SplitAt(s, C) ==
    [n \in 1..(Cardinality(C) + 1) |->
        SubSeq(s, EntryEnd(C, Len(s), n - 1) + 1, EntryEnd(C, Len(s), n) - 1)]
SplitCommas(s) == IF s = "" THEN <<>> ELSE SplitAt(s, CommaAt(s))

\* the bucket of each sampled tile, from the longitude and latitude of its
\* centre in degrees: (115.31, 34.31), (115.31, 43.07), (104.06, 38.82),
\* (104.06, 34.31), (109.69, 34.31), (126.56, 34.31), (113.91, 35.46)
BucketOfTile(t) ==
    CASE t = <<6, 52, 25>> -> "east"
      [] t = <<6, 52, 23>> -> "northeast"
      [] t = <<6, 50, 24>> -> "northwest"
      [] t = <<6, 50, 25>> -> "southwest"
      [] t = <<6, 51, 25>> -> "central"
      [] t = <<6, 54, 25>> -> "north"
      [] t = <<7, 104, 50>> -> "central"

-----------------------------------------------------------------------------
(* Properties *)

\* C1: at zoom >= 6 the returned codes are a union of whole groups: each group
\* of PROVINCE_GROUPS is wholly in the result or disjoint from it, the result
\* holds no other code, and every group holding a matched code is wholly in it.
C1_WholeGroups ==
    \A r \in Clients : Sampled(r) =>
        /\ \A g \in GroupSets : g \subseteq Codes(r) \/ g \cap Codes(r) = {}
        /\ Codes(r) \subseteq UNION GroupSets
        /\ \A g \in GroupSets : g \cap req[r].matched # {} => g \subseteq Codes(r)

\* C1 witness: a sampled tile whose matches lie in two groups
C1_Witness ==
    \E r \in Clients :
        /\ Sampled(r)
        /\ Cardinality({g \in GroupSets : g \cap req[r].matched # {}}) = 2
        /\ Len(req[r].provinces) = 7

\* C2 as stated: every region whose geometry contains a coarse sample point is
\* in the matched set of the coarse sampling.
C2_AllMatchesKept ==
    \A r \in Clients : req[r].stages # <<>> =>
        \A k \in 1..9 : \A i \in Containing(points(BBoxOf(r))[k]) :
            province_geometries[i].code \in req[r].stages[1].found

\* C2 amended: a sample point adds only the first region, in the Region
\* Index's order, whose geometry contains it.  The coarse sampling finds
\* exactly the first-containing regions of its nine points; a dense sampling
\* that matches finds exactly the first-containing region of the first dense
\* point any geometry contains; and the group of every matched code that has
\* a group is in the result.
C2_FirstMatchKept ==
    \A r \in Clients :
        /\ req[r].stages # <<>> =>
              req[r].stages[1].found =
                  {province_geometries[i].code : i \in
                      {j \in 1..Len(province_geometries) :
                          \E k \in 1..9 : IsFirstContaining(j, points(BBoxOf(r))[k])}}
        /\ (Len(req[r].stages) >= 2 /\ req[r].stages[2].found # {}) =>
              \E k \in 1..EdgeCount : \E i \in 1..Len(province_geometries) :
                  /\ \A n \in 1..(k - 1) : Containing(edge_point(BBoxOf(r), n)) = {}
                  /\ IsFirstContaining(i, edge_point(BBoxOf(r), k))
                  /\ req[r].stages[2].found = {province_geometries[i].code}
        /\ Sampled(r) =>
              \A c \in req[r].matched \cap DOMAIN CODE_TO_GROUP :
                  Range(GroupCodes(PROVINCE_GROUPS, CODE_TO_GROUP[c])) \subseteq Codes(r)

\* C2 witness: a coarse point lies in two geometries with different codes, and
\* the resolution has returned
C2_Witness ==
    \E r \in Clients :
        /\ Sampled(r) /\ req[r].matched # {}
        /\ \E k \in 1..9 : \E i, j \in Containing(points(BBoxOf(r))[k]) :
              province_geometries[i].code # province_geometries[j].code

Failed(r) == ~Resolved(r) \/ req[r].reply.raises \/ req[r].reply.status # 200

\* C3 as stated: a finished request answers 200 image/png; its body is the
\* fixed transparent PNG whenever resolution raised, the fetch raised or the
\* upstream status was not 200, and the upstream body otherwise.
C3_FailureGivesFallback ==
    \A r \in Clients : req[r].pc = "done" =>
        /\ req[r].response.status = 200
        /\ req[r].response.content_type = "image/png"
        /\ Failed(r) => req[r].response.body = TRANSPARENT_PNG
        /\ ~Failed(r) => req[r].response.body = req[r].reply.content

WellFormed(f) ==
    /\ ~f.properties.null /\ CodeOf(f.properties) # ""
    /\ ~f.geometry.null
    /\ \/ f.geometry.type = "Polygon" /\ ~polygon_raises(f.geometry.coordinates)
       \/ /\ f.geometry.type = "MultiPolygon"
          /\ \A i \in 1..Len(f.geometry.coordinates) : ~polygon_raises(f.geometry.coordinates[i])
GeometryOf(f) ==
    IF f.geometry.type = "Polygon"
    THEN [kind |-> "Polygon", polys |-> <<Polygon(f.geometry.coordinates)>>]
    ELSE [kind |-> "MultiPolygon",
          polys |-> [i \in 1..Len(f.geometry.coordinates) |-> Polygon(f.geometry.coordinates[i])]]

\* C4 as stated: after a load of a readable file, every well-formed feature
\* of the file has its code in the Region Index, with the geometry of the last
\* well-formed feature of that code, whatever the other features are.
C4_BadFeatureIsolated ==
    (phase = "serving" /\ geojson.readable) =>
        \A i \in 1..Len(geojson.features) :
            LET f == Feature(geojson.features[i])
                later == {j \in (i + 1)..Len(geojson.features) :
                             /\ WellFormed(Feature(geojson.features[j]))
                             /\ CodeOf(Feature(geojson.features[j]).properties) = CodeOf(f.properties)}
            IN  (WellFormed(f) /\ later = {}) =>
                    /\ HasKey(province_geometries, CodeOf(f.properties))
                    /\ DictGet(province_geometries, CodeOf(f.properties)) = GeometryOf(f)

\* C5: a tile at zoom >= 6 none of whose coarse or dense sample points lies in
\* a geometry of the Region Index resolves to the code list of exactly one
\* group, the one of the bucket of the tile centre, and the list is not empty.
C5_HeuristicGroup ==
    \A r \in Clients :
        (Returned(r) /\ Zoom(r) >= 6 /\ NoCoarseHit(BBoxOf(r)) /\ NoDenseHit(BBoxOf(r))) =>
            /\ req[r].provinces # <<>>
            /\ \E i \in 1..Len(PROVINCE_GROUPS) :
                  /\ PROVINCE_GROUPS[i].name = BucketOfTile(req[r].tile)
                  /\ req[r].provinces = PROVINCE_GROUPS[i].codes

\* C5 witness: such a tile has resolved although the Region Index holds a geometry
C5_Witness ==
    \E r \in Clients :
        /\ Returned(r) /\ Zoom(r) >= 6 /\ NoCoarseHit(BBoxOf(r)) /\ NoDenseHit(BBoxOf(r))
        /\ province_geometries # <<>>
        /\ req[r].tile = <<6, 50, 24>>

StageOrder == <<"coarse", "dense", "heuristic">>

\* C6: the strategies run in the order coarse, dense, heuristic, and a
\* strategy runs only after every earlier one has found no match.
C6_FallbackMonotone ==
    \A r \in Clients :
        /\ Len(req[r].stages) <= 3
        /\ \A i \in 1..Len(req[r].stages) :
              /\ req[r].stages[i].name = StageOrder[i]
              /\ i < Len(req[r].stages) => req[r].stages[i].found = {}
        /\ (Sampled(r) /\ req[r].stages[Len(req[r].stages)].name # "heuristic") =>
              req[r].stages[Len(req[r].stages)].found # {}

\* C6 witness: a request that ended after the coarse sampling alone found a match
C6_Witness ==
    \E r \in Clients :
        /\ req[r].pc = "done" /\ Resolved(r)
        /\ Len(req[r].stages) = 1 /\ req[r].stages[1].found # {}

\* C7: at zoom < 6 the result is the concatenation of all groups' codes,
\* whatever x, y and the Region Index are, and no sampling strategy has run.
C7_LowZoomAll ==
    \A r \in Clients : (Resolved(r) /\ Zoom(r) < 6) =>
        /\ Codes(r) = UNION GroupSets
        /\ Len(req[r].provinces) = Cardinality(UNION GroupSets)
        /\ req[r].stages = <<>>

\* C7 witness: a low-zoom tile has resolved over a Region Index that holds geometries
C7_Witness ==
    \E r \in Clients : Resolved(r) /\ Zoom(r) < 6 /\ Len(province_geometries) = 2

\* C8: the request just built has one layer entry and one style entry per resolved
\* code; the i-th layer is prefix + i-th code + suffix, every style is STYLE.
C8_LayersMatchCodes ==
    \A r \in Clients : (Resolved(r) /\ req[r].pc = "fetch") =>
        LET layers == SplitCommas(req[r].params.layers)
            styles == SplitCommas(req[r].params.styles)
        IN  /\ Len(layers) = Len(req[r].provinces)
            /\ Len(styles) = Len(req[r].provinces)
            /\ \A i \in 1..Len(req[r].provinces) :
                  /\ layers[i] = "QGSFKYFW:sf" \o req[r].provinces[i] \o "0000"
                  /\ styles[i] = "QGSFKYFW:shifeikongyu"

\* C8 witness: a request was built for the codes of two expanded groups
C8_Witness ==
    \E r \in Clients :
        /\ Resolved(r) /\ req[r].pc = "fetch"
        /\ Len(req[r].provinces) = 7 /\ Cardinality(req[r].matched) = 2

Repeatable ==
    \A r1, r2 \in Clients :
        (Resolved(r1) /\ Resolved(r2) /\ req[r1].tile = req[r2].tile) => Codes(r1) = Codes(r2)
C9_Step ==
    phase = "serving" =>
        /\ province_geometries' = province_geometries
        /\ PROVINCE_GROUPS' = PROVINCE_GROUPS
        /\ CODE_TO_GROUP' = CODE_TO_GROUP
        /\ Repeatable'

\* C9: once load_province_geometries has completed, no step of any request
\* changes the Region Index, PROVINCE_GROUPS or CODE_TO_GROUP, and two
\* resolutions of the same tile hold the same code set.
C9_ReadOnlyRepeatable == [][C9_Step]_vars

\* C9 witness: two requests hold resolutions of the same sampled tile made at
\* different times, over a Region Index of overlapping geometries
C9_Witness ==
    /\ Len(province_geometries) = 2
    /\ \E r1, r2 \in Clients :
          /\ r1 # r2 /\ req[r1].tile = req[r2].tile
          /\ Sampled(r1) /\ Sampled(r2) /\ req[r1].matched # {}
          /\ req[r1].pc = "done" /\ req[r2].pc = "build"

\* C10 as stated: get_province_group never returns an empty list.
C10_NeverEmpty == \A r \in Clients : Resolved(r) => req[r].provinces # <<>>

====
